---------------------------- MODULE Spec2Model ----------------------------
(***************************************************************************)
(* Wilson's-algorithm maze generator (maze_generator.py) and the search    *)
(* engine its mazes are handed to (visualizer.py, maze_solver).            *)
(*                                                                         *)
(* A cell is a pair <<row, column>>.  The grid `maze` is a function from   *)
(* the cells of a height x width rectangle to the one-character cell kinds *)
(* of the source: "#" (wall), " " (open), "A" (start), "B" (goal).         *)
(* A Python generator is modelled by its position `pc` (the yield it is    *)
(* suspended at); one action is one call of next() on it, i.e. the code    *)
(* from one yield to the next.                                             *)
(***************************************************************************)
EXTENDS Integers, Sequences, FiniteSets, TLC

\* Largest width / height a caller requests (requests are 1..Max).
MaxWidth == 4
MaxHeight == 4

\* Passage rows and columns of the finished mazes handed to the last step of
\* a generation (grid of 2 * rows + 1 by 2 * columns + 1 cells).
AugRows == 3
AugCols == 6

\* The grids handed to the search engine: rows, columns, and the largest
\* number of wall cells.
SearchRows == 2
SearchCols == 4
MaxWalls == 2

\* A wider family of grids, for comparing the lengths of the solutions.
WideRows == 3
WideCols == 5
WideWalls == 3

\* A straight corridor, and the passage rows and columns of the generated
\* single-solution mazes handed to the search engine.
CorridorLen == 5
TreeRows == 3
TreeCols == 4

\* The requested size and the largest number of wall cells of the grids on
\* which the furthest cell is looked for.
FurthestWidth == 4
FurthestHeight == 3
FurthestWalls == 3

\* The size of the maze the Visualizer asks for (visualizer.py:8-9 set 41 and
\* 31; the model generates a small maze) and the largest number of events
\* of one search stream.
MAZE_WIDTH == 4
MAZE_HEIGHT == 2
MaxEvents == 2

\* The requested size of the grid on which a single walk is followed.
WalkWidth == 7
WalkHeight == 5

\* maze_generator.py:33
max_steps == 1000

VARIABLES
    req_width,          \* the width argument of MazeGenerator(...)
    req_height,         \* the height argument of MazeGenerator(...)
    width,              \* self.width
    height,             \* self.height
    multiple_solutions, \* self.multiple_solutions
    maze,               \* the local grid of wilson_algorithm_generator
    self_maze,          \* self.maze (None until generation completes)
    in_maze,            \* set of passage cells already in the maze
    remaining_cells,    \* cells of all_cells not in in_maze (as last computed)
    current,            \* the walk's current cell
    path,               \* the walk's loop-erased path
    steps,              \* steps taken by the current walk
    i,                  \* index of the path cell being added
    pc,                 \* position of the generator
    event,              \* phase tag of the last event yielded
    walls_removed,      \* walls cleared by add_multiple_paths
    m_height,           \* Maze.height
    m_width,            \* Maze.width
    m_walls,            \* Maze.walls, as the set of wall cells
    m_start,            \* Maze.start
    m_goal,             \* Maze.goal
    m_explored,         \* Maze.explored
    m_solution,         \* Maze.solution: <<actions, cells>> or None
    strategy,           \* the frontier class handed to solve_generator
    frontier,           \* the frontier's nodes, in insertion order
    s_pc,               \* position of the search generator
    s_event,            \* status of the last search event yielded
    s_result,           \* how the search ended
    ui_state,           \* Visualizer.state
    running,            \* the local `running` of Visualizer.run
    maze_data,          \* Visualizer.maze_data
    v_multiple_solutions, \* Visualizer.multiple_solutions
    all_solved,         \* Visualizer.all_solved
    generators,         \* Visualizer.generators: events left in each stream
    run_pc,             \* position in the loop of Visualizer.run
    key,                \* the last pygame event handled
    maze_mode,          \* history: self.multiple_solutions of the MazeGenerator that made maze_data
    f_start,            \* the start argument of a call of find_furthest_cell
    f_returned          \* the cell that call returned

genVars == <<req_width, req_height, width, height, multiple_solutions, maze,
             self_maze, in_maze, remaining_cells, current, path, steps, i, pc,
             event, walls_removed>>

searchVars == <<m_height, m_width, m_walls, m_start, m_goal, m_explored,
                m_solution, strategy, frontier, s_pc, s_event, s_result>>

uiVars == <<ui_state, running, maze_data, v_multiple_solutions, all_solved,
            generators, run_pc, key, maze_mode>>

callVars == <<f_start, f_returned>>

vars == <<genVars, searchVars, uiVars, callVars>>

None == <<>>

-----------------------------------------------------------------------------
(* Grid helpers *)

\* A constructor that keeps the requested size as it is.
OddRoundNone(n) == n

\* __init__: width if width % 2 == 1 else width + 1
OddRound(n) == IF n % 2 = 1 THEN n ELSE n + 1

\* [['#' for _ in range(w)] for _ in range(h)]
AllWalls(h, w) == [cell \in (0 .. h - 1) \X (0 .. w - 1) |-> "#"]

\* all_cells: (r, c) for r in range(1, height, 2) for c in range(1, width, 2)
AllCells(h, w) ==
    {cell \in (1 .. h - 1) \X (1 .. w - 1) : cell[1] % 2 = 1 /\ cell[2] % 2 = 1}

\* The coarse-graph neighbours a walk chooses from (lines 37-41).
Neighbors(cell, h, w) ==
    {nb \in {<<cell[1], cell[2] + 2>>, <<cell[1], cell[2] - 2>>,
             <<cell[1] + 2, cell[2]>>, <<cell[1] - 2, cell[2]>>} :
        1 <= nb[1] /\ nb[1] < h - 1 /\ 1 <= nb[2] /\ nb[2] < w - 1}

\* The wall cell between two path cells: ((r1 + r2) // 2, (c1 + c2) // 2)
WallBetween(a, b) == <<(a[1] + b[1]) \div 2, (a[2] + b[2]) \div 2>>

\* The four cells next to a cell that lie in the grid and are not walls
\* (the neighbour test of both breadth-first traversals).
OpenAdjacent(m, cell, h, w) ==
    {nb \in {<<cell[1], cell[2] + 1>>, <<cell[1], cell[2] - 1>>,
             <<cell[1] + 1, cell[2]>>, <<cell[1] - 1, cell[2]>>} :
        /\ 0 <= nb[1] /\ nb[1] < h /\ 0 <= nb[2] /\ nb[2] < w
        /\ m[nb] # "#"}

\* The while loop of get_reachable_positions, one breadth-first layer per
\* call: `queue` holds the visited cells not yet expanded.
RECURSIVE ReachClosure(_, _, _, _, _)
ReachClosure(m, visited, queue, h, w) ==
    IF queue = {} THEN visited
    ELSE LET fresh == UNION {OpenAdjacent(m, cell, h, w) : cell \in queue} \ visited
         IN ReachClosure(m, visited \cup fresh, fresh, h, w)

\* get_reachable_positions: the set a breadth-first traversal visits.
get_reachable_positions(m, start, h, w) == ReachClosure(m, {start}, {start}, h, w)


\* The order in which both traversals look at a cell's neighbours.
Directions == <<(<<0, 1>>), (<<0, -1>>), (<<1, 0>>), (<<-1, 0>>)>>

\* A loop that also moves to a cell at the same distance.
RECURSIVE FurthestLoopLatest(_, _, _, _, _, _, _)
FurthestLoopLatest(m, queue, visited, furthest_cell, max_distance, h, w) ==
    IF queue = <<>> THEN furthest_cell
    ELSE
        LET cell == Head(queue)[1]
            distance == Head(queue)[2]
            cand == [k \in 1 .. 4 |->
                        <<cell[1] + Directions[k][1], cell[2] + Directions[k][2]>>]
            ok(nb) == /\ 0 <= nb[1] /\ nb[1] < h /\ 0 <= nb[2] /\ nb[2] < w
                      /\ nb \notin visited
                      /\ m[nb] # "#"
            fresh == SelectSeq(cand, ok)
            further == distance >= max_distance
        IN FurthestLoopLatest(m,
               Tail(queue) \o [k \in 1 .. Len(fresh) |-> <<fresh[k], distance + 1>>],
               visited \cup {fresh[k] : k \in 1 .. Len(fresh)},
               IF further THEN cell ELSE furthest_cell,
               IF further THEN distance ELSE max_distance,
               h, w)

\* One pass of find_furthest_cell's while loop per call: pop the head of the
\* queue, update the furthest cell, append the unvisited open neighbours.
RECURSIVE FurthestLoop(_, _, _, _, _, _, _)
FurthestLoop(m, queue, visited, furthest_cell, max_distance, h, w) ==
    IF queue = <<>> THEN furthest_cell
    ELSE
        LET cell == Head(queue)[1]
            distance == Head(queue)[2]
            cand == [k \in 1 .. 4 |->
                        <<cell[1] + Directions[k][1], cell[2] + Directions[k][2]>>]
            ok(nb) == /\ 0 <= nb[1] /\ nb[1] < h /\ 0 <= nb[2] /\ nb[2] < w
                      /\ nb \notin visited
                      /\ m[nb] # "#"
            fresh == SelectSeq(cand, ok)
            further == distance > max_distance
        IN FurthestLoop(m,
               Tail(queue) \o [k \in 1 .. Len(fresh) |-> <<fresh[k], distance + 1>>],
               visited \cup {fresh[k] : k \in 1 .. Len(fresh)},
               IF further THEN cell ELSE furthest_cell,
               IF further THEN distance ELSE max_distance,
               h, w)

find_furthest_cell(m, start, h, w) ==
    FurthestLoop(m, <<(<<start, 0>>)>>, {start}, start, 0, h, w)

\* range(n - 2, 0, -2) and range(n - 2, 0, -1)
RangeDownBy2(n) == {x \in 1 .. n - 2 : (n - 2 - x) % 2 = 0}
RangeDownBy1(n) == 1 .. n - 2

\* A scan with the loops swapped: by descending column, then descending row.
FirstDescendingByColumn(S) ==
    CHOOSE cell \in S : \A other \in S :
        \/ other[2] < cell[2]
        \/ (other[2] = cell[2] /\ other[1] <= cell[1])

\* The first cell of S in a scan by descending row, then descending column.
FirstDescending(S) ==
    CHOOSE cell \in S : \A other \in S :
        \/ other[1] < cell[1]
        \/ (other[1] = cell[1] /\ other[2] <= cell[2])

\* A scan that does not look at the reachable set.
GoalCandidatesUnchecked(reachable, rows, cols) ==
    {cell \in rows \X cols : cell # <<1, 1>>}

\* place_connected_goal, lines 104 and 111: the cells a scan may stop at.
GoalCandidates(reachable, rows, cols) ==
    {cell \in rows \X cols : cell \in reachable /\ cell # <<1, 1>>}

\* place_connected_goal: the cell that receives 'B', or None when the
\* function returns False.
place_connected_goal(m, h, w) ==
    LET reachable == get_reachable_positions(m, <<1, 1>>, h, w)
        coarse == GoalCandidates(reachable, RangeDownBy2(h), RangeDownBy2(w))
        any == GoalCandidates(reachable, RangeDownBy1(h), RangeDownBy1(w))
    IN IF coarse # {} THEN FirstDescending(coarse)
       ELSE IF any # {} THEN FirstDescending(any)
       ELSE None

\* A placement that runs the fallback whether or not a goal was placed.
PlaceGoalAlways(m, h, w) ==
    LET goal == place_connected_goal(m, h, w)
        furthest_cell == find_furthest_cell(m, <<1, 1>>, h, w)
        m1 == IF goal # None THEN [m EXCEPT ![goal] = "B"] ELSE m
    IN IF furthest_cell # <<1, 1>> THEN [m1 EXCEPT ![furthest_cell] = "B"] ELSE m1

\* Lines 78-85: goal placement with its furthest-cell fallback.
PlaceGoal(m, h, w) ==
    LET goal == place_connected_goal(m, h, w)
        furthest_cell == find_furthest_cell(m, <<1, 1>>, h, w)
    IN IF goal # None THEN [m EXCEPT ![goal] = "B"]
       ELSE IF furthest_cell # <<1, 1>> THEN [m EXCEPT ![furthest_cell] = "B"]
       ELSE m

\* add_multiple_paths, lines 162-176: the walls between two ' ' cells.
WallCandidates(m, h, w) ==
    {cell \in (2 .. h - 2) \X (1 .. w - 2) :
        /\ cell[1] % 2 = 0 /\ cell[2] % 2 = 1
        /\ m[<<cell[1] - 1, cell[2]>>] = " " /\ m[<<cell[1] + 1, cell[2]>>] = " "
        /\ m[cell] = "#"}
    \cup
    {cell \in (1 .. h - 2) \X (2 .. w - 2) :
        /\ cell[1] % 2 = 1 /\ cell[2] % 2 = 0
        /\ m[<<cell[1], cell[2] - 1>>] = " " /\ m[<<cell[1], cell[2] + 1>>] = " "
        /\ m[cell] = "#"}

\* A count that rounds up instead of down.
NumToRemoveCeil(candidates) == (Cardinality(candidates) + 7) \div 8

\* len(walls_to_remove) // 8
NumToRemove(candidates) == Cardinality(candidates) \div 8

\* random.sample(walls_to_remove, num_to_remove): every choice of that many.
RECURSIVE SubsetsOfSize(_, _)
SubsetsOfSize(S, k) ==
    IF k = 0 THEN {{}}
    ELSE IF S = {} THEN {}
    ELSE LET x == CHOOSE y \in S : TRUE
         IN {T \cup {x} : T \in SubsetsOfSize(S \ {x}, k - 1)}
                \cup SubsetsOfSize(S \ {x}, k)

Samples(candidates) == SubsetsOfSize(candidates, NumToRemove(candidates))

\* A rewrite of the grid that keeps only wall / not wall.
ClearWallsDropMarks(m, sample) ==
    [cell \in DOMAIN m |-> IF cell \in sample \/ m[cell] # "#" THEN " " ELSE "#"]

\* Lines 180-183: clear the sampled walls.
ClearWalls(m, sample) == [cell \in DOMAIN m |-> IF cell \in sample THEN " " ELSE m[cell]]

-----------------------------------------------------------------------------
(* The generator *)

\* No search has been set up.
NoSearch ==
    /\ m_height = 0
    /\ m_width = 0
    /\ m_walls = {}
    /\ m_start = None
    /\ m_goal = None
    /\ m_explored = {}
    /\ m_solution = None
    /\ strategy = "none"
    /\ frontier = <<>>
    /\ s_pc = "idle"
    /\ s_event = "none"
    /\ s_result = "none"

\* No Visualizer is running.
NoVisualizer ==
    /\ ui_state = "none"
    /\ running = FALSE
    /\ maze_data = None
    /\ v_multiple_solutions = FALSE
    /\ all_solved = FALSE
    /\ generators = None
    /\ run_pc = "none"
    /\ key = "none"
    /\ maze_mode = None

\* No Visualizer is running and no separate call has been made.
NoDriver ==
    /\ NoVisualizer
    /\ f_start = None
    /\ f_returned = None

Init ==
    /\ NoSearch
    /\ NoDriver
    /\ req_width \in 1 .. MaxWidth
    /\ req_height \in 1 .. MaxHeight
    /\ multiple_solutions \in BOOLEAN
    /\ width = 0
    /\ height = 0
    /\ maze = None
    /\ self_maze = None
    /\ in_maze = {}
    /\ remaining_cells = {}
    /\ current = None
    /\ path = <<>>
    /\ steps = 0
    /\ i = 0
    /\ pc = "new"
    /\ event = "none"
    /\ walls_removed = {}

\* MazeGenerator.__init__, lines 7-12: the constructor returns an object for
\* every width and height.
MazeGenerator_init ==
    /\ UNCHANGED <<searchVars, uiVars, callVars>>
    /\ pc = "new"
    /\ width' = OddRound(req_width)
    /\ height' = OddRound(req_height)
    /\ pc' = "constructed"
    /\ UNCHANGED <<req_width, req_height, multiple_solutions, maze, self_maze,
                   in_maze, remaining_cells, current, path, steps, i, event,
                   walls_removed>>

\* First next(): lines 16-21.  maze[1][1] raises IndexError when the grid
\* has no row 1 or no column 1.
Begin ==
    /\ UNCHANGED <<searchVars, uiVars, callVars>>
    /\ pc = "constructed"
    /\ IF height >= 2 /\ width >= 2
       THEN /\ maze' = [AllWalls(height, width) EXCEPT ![<<1, 1>>] = " "]
            /\ in_maze' = {<<1, 1>>}
            /\ pc' = "initial"
            /\ event' = "initial"
       ELSE /\ maze' = AllWalls(height, width)
            /\ in_maze' = {}
            /\ pc' = "raised"
            /\ event' = event
    /\ UNCHANGED <<req_width, req_height, width, height, multiple_solutions,
                   self_maze, remaining_cells, current, path, steps, i,
                   walls_removed>>

\* The cells the loop head `while remaining_cells` sees: computed at line 25
\* after the initial event, at line 72 after each walk.
RemainingAtLoopHead ==
    IF pc = "initial" THEN AllCells(height, width) \ in_maze ELSE remaining_cells

\* Lines 27-30: pick a remaining cell and start a walk.
WalkStart ==
    /\ UNCHANGED <<searchVars, uiVars, callVars>>
    /\ pc \in {"initial", "path_complete"}
    /\ RemainingAtLoopHead # {}
    /\ \E cell \in RemainingAtLoopHead :
        /\ current' = cell
        /\ path' = <<cell>>
    /\ remaining_cells' = RemainingAtLoopHead
    /\ steps' = 0
    /\ pc' = "walk_start"
    /\ event' = "walk_start"
    /\ UNCHANGED <<req_width, req_height, width, height, multiple_solutions,
                   maze, self_maze, in_maze, i, walls_removed>>

\* Lines 47-51: append the chosen cell, or cut the path back to it.
IndexOf(p, cell) == CHOOSE k \in 1 .. Len(p) : p[k] = cell /\ \A j \in 1 .. k - 1 : p[j] # cell

InPath(p, cell) == \E k \in 1 .. Len(p) : p[k] = cell

\* A walk that backs up one cell instead of cutting the loop.
EraseLoopPopLast(p, cell) == SubSeq(p, 1, Len(p) - 1)

EraseLoop(p, cell) == SubSeq(p, 1, IndexOf(p, cell))

\* A walk that appends every chosen cell and never cuts a loop.
ExtendNoErase(p, cell) == Append(p, cell)

Extend(p, cell) == IF InPath(p, cell) THEN EraseLoop(p, cell) ELSE Append(p, cell)

\* The walk's loop condition (line 35) and the dead-end break (line 43).
WalkContinues ==
    /\ current \notin in_maze
    /\ steps < max_steps
    /\ Neighbors(current, height, width) # {}

\* Lines 35-54: one step of the random walk.
Walking ==
    /\ UNCHANGED <<searchVars, uiVars, callVars>>
    /\ pc \in {"walk_start", "walking"}
    /\ WalkContinues
    /\ \E next_cell \in Neighbors(current, height, width) :
        /\ path' = Extend(path, next_cell)
        /\ current' = next_cell
    /\ steps' = steps + 1
    /\ pc' = "walking"
    /\ event' = "walking"
    /\ UNCHANGED <<req_width, req_height, width, height, multiple_solutions,
                   maze, self_maze, in_maze, remaining_cells, i, walls_removed>>

\* Lines 58-68: clear path[k] and the wall towards path[k + 1] (1-based k).
ConnectCell(m, p, k) ==
    LET m1 == [m EXCEPT ![p[k]] = " "]
    IN IF k < Len(p) THEN [m1 EXCEPT ![WallBetween(p[k], p[k + 1])] = " "] ELSE m1

\* A connect loop that leaves the grid alone when the walk did not reach
\* the maze, so that the cell is tried again later.
AddingFirstUnlessStalled ==
    /\ UNCHANGED <<searchVars, uiVars, callVars>>
    /\ pc \in {"walk_start", "walking"}
    /\ ~WalkContinues
    /\ i' = IF current \in in_maze THEN 0 ELSE Len(path) - 1
    /\ maze' = IF current \in in_maze THEN ConnectCell(maze, path, 1) ELSE maze
    /\ in_maze' = IF current \in in_maze THEN in_maze \cup {path[1]} ELSE in_maze
    /\ pc' = "adding_path"
    /\ event' = "adding_path"
    /\ UNCHANGED <<req_width, req_height, width, height, multiple_solutions,
                   self_maze, remaining_cells, current, path, steps,
                   walls_removed>>

\* Lines 57-70: the walk loop is left; the first path cell is added.
AddingFirst ==
    /\ UNCHANGED <<searchVars, uiVars, callVars>>
    /\ pc \in {"walk_start", "walking"}
    /\ ~WalkContinues
    /\ i' = 0
    /\ maze' = ConnectCell(maze, path, 1)
    /\ in_maze' = in_maze \cup {path[1]}
    /\ pc' = "adding_path"
    /\ event' = "adding_path"
    /\ UNCHANGED <<req_width, req_height, width, height, multiple_solutions,
                   self_maze, remaining_cells, current, path, steps,
                   walls_removed>>

\* Lines 57-70: the next path cell is added.
AddingNext ==
    /\ UNCHANGED <<searchVars, uiVars, callVars>>
    /\ pc = "adding_path"
    /\ i + 1 < Len(path)
    /\ i' = i + 1
    /\ maze' = ConnectCell(maze, path, i + 2)
    /\ in_maze' = in_maze \cup {path[i + 2]}
    /\ event' = "adding_path"
    /\ UNCHANGED <<req_width, req_height, width, height, multiple_solutions,
                   self_maze, remaining_cells, current, path, steps, pc,
                   walls_removed>>

\* A path_complete event that is left out after the last walk.
PathCompleteUnlessLast ==
    /\ UNCHANGED <<searchVars, uiVars, callVars>>
    /\ pc = "adding_path"
    /\ i + 1 >= Len(path)
    /\ remaining_cells' = AllCells(height, width) \ in_maze
    /\ pc' = "path_complete"
    /\ event' = IF remaining_cells' = {} THEN event ELSE "path_complete"
    /\ UNCHANGED <<req_width, req_height, width, height, multiple_solutions,
                   maze, self_maze, in_maze, current, path, steps, i,
                   walls_removed>>

\* Lines 72-73: the path is used up.
PathComplete ==
    /\ UNCHANGED <<searchVars, uiVars, callVars>>
    /\ pc = "adding_path"
    /\ i + 1 >= Len(path)
    /\ remaining_cells' = AllCells(height, width) \ in_maze
    /\ pc' = "path_complete"
    /\ event' = "path_complete"
    /\ UNCHANGED <<req_width, req_height, width, height, multiple_solutions,
                   maze, self_maze, in_maze, current, path, steps, i,
                   walls_removed>>

\* Lines 75-85: the grid with its start and goal, as add_multiple_paths
\* receives it.
Placed == PlaceGoal([maze EXCEPT ![<<1, 1>>] = "A"], height, width)

\* Lines 75-92: start, goal, optional extra paths, the complete event.
Complete ==
    /\ UNCHANGED <<searchVars, uiVars, callVars>>
    /\ pc \in {"initial", "path_complete"}
    /\ RemainingAtLoopHead = {}
    /\ LET placed == Placed
       IN IF multiple_solutions
          THEN \E sample \in Samples(WallCandidates(placed, height, width)) :
                  /\ maze' = ClearWalls(placed, sample)
                  /\ walls_removed' = sample
          ELSE /\ maze' = placed
               /\ walls_removed' = {}
    /\ self_maze' = maze'
    /\ remaining_cells' = RemainingAtLoopHead
    /\ pc' = "complete"
    /\ event' = "complete"
    /\ UNCHANGED <<req_width, req_height, width, height, multiple_solutions,
                   in_maze, current, path, steps, i>>

\* The next() after the complete event: the generator is exhausted.
Exhausted ==
    /\ UNCHANGED <<searchVars, uiVars, callVars>>
    /\ pc = "complete"
    /\ pc' = "done"
    /\ UNCHANGED <<req_width, req_height, width, height, multiple_solutions,
                   maze, self_maze, in_maze, remaining_cells, current, path,
                   steps, i, event, walls_removed>>

Next ==
    \/ MazeGenerator_init
    \/ Begin
    \/ WalkStart
    \/ Walking
    \/ AddingFirst
    \/ AddingNext
    \/ PathComplete
    \/ Complete
    \/ Exhausted

Spec == Init /\ [][Next]_vars

\* The first outer iteration of a generation on one larger grid: the walk has
\* room for loops of more than two cells.
InitWalk ==
    /\ NoSearch
    /\ NoDriver
    /\ req_width = WalkWidth
    /\ req_height = WalkHeight
    /\ multiple_solutions = FALSE
    /\ width = 0
    /\ height = 0
    /\ maze = None
    /\ self_maze = None
    /\ in_maze = {}
    /\ remaining_cells = {}
    /\ current = None
    /\ path = <<>>
    /\ steps = 0
    /\ i = 0
    /\ pc = "new"
    /\ event = "none"
    /\ walls_removed = {}

NextWalk ==
    \/ MazeGenerator_init
    \/ Begin
    \/ (pc = "initial" /\ WalkStart)
    \/ Walking
    \/ AddingFirst
    \/ AddingNext
    \/ PathComplete

SpecWalk == InitWalk /\ [][NextWalk]_vars

\* A call of find_furthest_cell on its own: a generator object of the given
\* size, a grid of Wall and Open cells with at most FurthestWalls walls, and
\* a start cell in the first column.
InitFurthest ==
    /\ NoSearch
    /\ NoVisualizer
    /\ req_width = FurthestWidth
    /\ req_height = FurthestHeight
    /\ width = OddRound(req_width)
    /\ height = OddRound(req_height)
    /\ multiple_solutions = FALSE
    /\ f_start \in {<<r, 0>> : r \in 0 .. height - 1}
    /\ f_returned = None
    /\ \E walls \in UNION {SubsetsOfSize(((0 .. height - 1) \X (0 .. width - 1)) \ {f_start}, k) :
                            k \in 0 .. FurthestWalls} :
          maze = [cell \in (0 .. height - 1) \X (0 .. width - 1) |->
                     IF cell \in walls THEN "#" ELSE " "]
    /\ self_maze = None
    /\ in_maze = {}
    /\ remaining_cells = {}
    /\ current = None
    /\ path = <<>>
    /\ steps = 0
    /\ i = 0
    /\ pc = "constructed"
    /\ event = "none"
    /\ walls_removed = {}

\* find_furthest_cell(maze, start), lines 135-157.
CallFindFurthestCell ==
    /\ f_start # None
    /\ f_returned = None
    /\ f_returned' = find_furthest_cell(maze, f_start, height, width)
    /\ UNCHANGED <<genVars, searchVars, uiVars, f_start>>

NextFurthest == CallFindFurthestCell

SpecFurthest == InitFurthest /\ [][NextFurthest]_vars

\* A spanning tree over rows x cols passage cells, as a finished generation
\* leaves it: the top row is a corridor, the first column hangs from it, and
\* every other passage cell is joined to the cell above it (up[cell] true) or
\* to the cell on its left.
TreeGrid(rows, cols, up) ==
    LET h == 2 * rows + 1
        w == 2 * cols + 1
        open(cell) ==
            \/ cell[1] % 2 = 1 /\ cell[2] % 2 = 1
            \/ cell[1] = 1 /\ cell[2] % 2 = 0
            \/ cell[1] % 2 = 0 /\ cell[2] = 1
            \/ cell[1] % 2 = 0 /\ cell[2] % 2 = 1 /\ cell[2] > 1
                  /\ up[<<cell[1] + 1, cell[2]>>]
            \/ cell[1] % 2 = 1 /\ cell[2] % 2 = 0 /\ cell[1] > 1
                  /\ ~up[<<cell[1], cell[2] + 1>>]
    IN [cell \in (0 .. h - 1) \X (0 .. w - 1) |->
            IF 0 < cell[1] /\ cell[1] < h - 1 /\ 0 < cell[2] /\ cell[2] < w - 1
               /\ open(cell)
            THEN " " ELSE "#"]

\* The generator suspended at its last path_complete event, on a grid large
\* enough for add_multiple_paths to find eight candidates.  The last walk
\* went from the bottom-right cell, a leaf of the tree, to its neighbour.
InitAug ==
    /\ NoSearch
    /\ NoDriver
    /\ req_width = 2 * AugCols + 1
    /\ req_height = 2 * AugRows + 1
    /\ width = req_width
    /\ height = req_height
    /\ multiple_solutions \in BOOLEAN
    /\ \E colUp \in [1 .. AugCols -> BOOLEAN], rowFlip \in [1 .. AugRows -> BOOLEAN] :
          LET up == [cell \in AllCells(height, width) |->
                        colUp[(cell[2] + 1) \div 2] # rowFlip[(cell[1] + 1) \div 2]]
              last == <<height - 2, width - 2>>
              joined == IF up[last] THEN <<last[1] - 2, last[2]>>
                        ELSE <<last[1], last[2] - 2>>
          IN /\ maze = TreeGrid(AugRows, AugCols, up)
             /\ path = <<last, joined>>
             /\ current = joined
    /\ self_maze = None
    /\ in_maze = AllCells(height, width)
    /\ remaining_cells = {}
    /\ steps = 1
    /\ i = 1
    /\ pc = "path_complete"
    /\ event = "path_complete"
    /\ walls_removed = {}

NextAug ==
    \/ Complete
    \/ Exhausted

SpecAug == InitAug /\ [][NextAug]_vars

-----------------------------------------------------------------------------
(* The search engine and its frontiers (maze_solver), driven by             *)
(* Visualizer.run                                                           *)

\* A SearchNode: a cell, the node it was reached from, and the action taken.
Node(cell, parent, action) == [state |-> cell, parent |-> parent, action |-> action]

\* The fixed order in which a cell's neighbours are expanded.
Actions == <<"right", "down", "left", "up">>

Move(cell, action) ==
    CASE action = "right" -> <<cell[1], cell[2] + 1>>
      [] action = "down"  -> <<cell[1] + 1, cell[2]>>
      [] action = "left"  -> <<cell[1], cell[2] - 1>>
      [] action = "up"    -> <<cell[1] - 1, cell[2]>>

InGrid(cell) ==
    0 <= cell[1] /\ cell[1] < m_height /\ 0 <= cell[2] /\ cell[2] < m_width

\* Manhattan distance between a cell and the goal.
Abs(n) == IF n < 0 THEN -n ELSE n

Heuristic(cell) == Abs(cell[1] - m_goal[1]) + Abs(cell[2] - m_goal[2])

\* Path cost so far: the number of parent links from a node to the root.
RECURSIVE Cost(_)
Cost(node) == IF node.parent = None THEN 0 ELSE 1 + Cost(node.parent)

\* The priority a frontier orders its nodes by (greedy and cost+heuristic).
Priority(node) ==
    IF strategy = "greedy" THEN Heuristic(node.state)
    ELSE Cost(node) + Heuristic(node.state)

\* remove_next: the position in the frontier of the node removed next.
\* Equal priorities: the earliest inserted node wins.
NextIndex(f) ==
    CASE strategy = "stack" -> Len(f)
      [] strategy = "queue" -> 1
      [] OTHER ->
            CHOOSE k \in 1 .. Len(f) :
                /\ \A j \in 1 .. Len(f) : Priority(f[k]) <= Priority(f[j])
                /\ \A j \in 1 .. k - 1 : Priority(f[j]) > Priority(f[k])

RemoveAt(f, k) == SubSeq(f, 1, k - 1) \o SubSeq(f, k + 1, Len(f))

\* The frontier's membership check.
contains_state(f, cell) == \E k \in 1 .. Len(f) : f[k].state = cell

\* An expansion that does not look at the walls.
ChildrenThroughWalls(node, f, explored) ==
    LET ok(action) ==
            LET cell == Move(node.state, action)
            IN /\ InGrid(cell)
               /\ cell \notin explored
               /\ ~contains_state(f, cell)
        chosen == SelectSeq(Actions, ok)
    IN [k \in 1 .. Len(chosen) |-> Node(Move(node.state, chosen[k]), node, chosen[k])]

\* The children of a node: its neighbours, in the fixed order, that are in
\* the grid, not walls, not explored and not already in the frontier.
Children(node, f, explored) ==
    LET ok(action) ==
            LET cell == Move(node.state, action)
            IN /\ InGrid(cell)
               /\ cell \notin m_walls
               /\ cell \notin explored
               /\ ~contains_state(f, cell)
        chosen == SelectSeq(Actions, ok)
    IN [k \in 1 .. Len(chosen) |-> Node(Move(node.state, chosen[k]), node, chosen[k])]

\* A reconstruction that also lists the root's cell.
RECURSIVE SolutionCellsWithRoot(_)
SolutionCellsWithRoot(node) ==
    IF node.parent = None THEN <<node.state>>
    ELSE Append(SolutionCellsWithRoot(node.parent), node.state)

\* The solution: walk the parent links from the goal node to the root and
\* reverse; a pair <<actions, cells>>.
RECURSIVE SolutionActions(_)
SolutionActions(node) ==
    IF node.parent = None THEN <<>>
    ELSE Append(SolutionActions(node.parent), node.action)

RECURSIVE SolutionCells(_)
SolutionCells(node) ==
    IF node.parent = None THEN <<>>
    ELSE Append(SolutionCells(node.parent), node.state)

\* The frontier the loop head sees: the first next() puts the root node in.
FrontierAtLoopHead ==
    IF s_pc = "created" THEN <<Node(m_start, None, None)>> ELSE frontier

\* Visualizer.initialize_mazes: one Maze per strategy over the same grid, and
\* a search generator that has not run yet.  Every set of at most maxWalls
\* cells is a wall pattern; the start lies in the first column and the goal
\* in the last.
SearchSetup(rows, cols, maxWalls) ==
    /\ NoDriver
    /\ req_width = 0
    /\ req_height = 0
    /\ multiple_solutions = FALSE
    /\ width = 0
    /\ height = 0
    /\ maze = None
    /\ self_maze = None
    /\ in_maze = {}
    /\ remaining_cells = {}
    /\ current = None
    /\ path = <<>>
    /\ steps = 0
    /\ i = 0
    /\ pc = "done"
    /\ event = "complete"
    /\ walls_removed = {}
    /\ m_height = rows
    /\ m_width = cols
    /\ m_start \in {<<r, 0>> : r \in 0 .. rows - 1}
    /\ m_goal \in {<<r, cols - 1>> : r \in 0 .. rows - 1}
    /\ m_walls \in UNION {SubsetsOfSize(((0 .. rows - 1) \X (0 .. cols - 1))
                                            \ {m_start, m_goal}, k) : k \in 0 .. maxWalls}
    /\ m_explored = {}
    /\ m_solution = None
    /\ strategy \in {"stack", "queue", "greedy", "astar"}
    /\ frontier = <<>>
    /\ s_pc = "created"
    /\ s_event = "none"
    /\ s_result = "none"

InitSearch == SearchSetup(SearchRows, SearchCols, MaxWalls)

InitSearchWide == SearchSetup(WideRows, WideCols, WideWalls)

\* Visualizer.initialize_mazes on a finished grid of the generator: the
\* '#' cells are the walls, 'A' is the start and 'B' the goal.
SearchOnGrid(grid, h, w) ==
    /\ NoDriver
    /\ req_width = w
    /\ req_height = h
    /\ multiple_solutions = FALSE
    /\ width = w
    /\ height = h
    /\ maze = grid
    /\ self_maze = grid
    /\ in_maze = AllCells(h, w)
    /\ remaining_cells = {}
    /\ current = None
    /\ path = <<>>
    /\ steps = 0
    /\ i = 0
    /\ pc = "done"
    /\ event = "complete"
    /\ walls_removed = {}
    /\ m_height = h
    /\ m_width = w
    /\ m_start = CHOOSE cell \in DOMAIN grid : grid[cell] = "A"
    /\ m_goal = CHOOSE cell \in DOMAIN grid : grid[cell] = "B"
    /\ m_walls = {cell \in DOMAIN grid : grid[cell] = "#"}
    /\ m_explored = {}
    /\ m_solution = None
    /\ strategy \in {"stack", "queue", "greedy", "astar"}
    /\ frontier = <<>>
    /\ s_pc = "created"
    /\ s_event = "none"
    /\ s_result = "none"

\* The grids with at most one solution: a straight corridor with the start
\* at one end and the goal at the other, free or blocked by one wall, and the
\* single-solution mazes of the generator (a spanning tree, 'A' at (1,1), the
\* goal where lines 78-85 put it).
InitSearchUnique ==
    \/ SearchSetup(1, CorridorLen, 1)
    \/ \E colUp \in [1 .. TreeCols -> BOOLEAN], rowFlip \in [1 .. TreeRows -> BOOLEAN] :
          LET h == 2 * TreeRows + 1
              w == 2 * TreeCols + 1
              up == [cell \in AllCells(h, w) |->
                        colUp[(cell[2] + 1) \div 2] # rowFlip[(cell[1] + 1) \div 2]]
              tree == TreeGrid(TreeRows, TreeCols, up)
          IN SearchOnGrid(PlaceGoal([tree EXCEPT ![<<1, 1>>] = "A"], h, w), h, w)

\* next(gen) when the removed node is not the goal: the cell is explored,
\* its children join the frontier, an exploring event is yielded
\* (and Visualizer.run adds the cell to maze.explored).
SearchExplore ==
    /\ s_pc \in {"created", "exploring"}
    /\ FrontierAtLoopHead # <<>>
    /\ LET f == FrontierAtLoopHead
           k == NextIndex(f)
           node == f[k]
           rest == RemoveAt(f, k)
       IN /\ node.state # m_goal
          /\ m_explored' = m_explored \cup {node.state}
          /\ frontier' = rest \o Children(node, rest, m_explored \cup {node.state})
    /\ s_pc' = "exploring"
    /\ s_event' = "exploring"
    /\ UNCHANGED <<m_height, m_width, m_walls, m_start, m_goal, m_solution,
                   strategy, s_result>>
    /\ UNCHANGED <<genVars, uiVars, callVars>>

\* next(gen) when the removed node is the goal: the solution is rebuilt and
\* yielded as the terminal goal-reached event.
SearchGoal ==
    /\ s_pc \in {"created", "exploring"}
    /\ FrontierAtLoopHead # <<>>
    /\ LET f == FrontierAtLoopHead
           k == NextIndex(f)
           node == f[k]
       IN /\ node.state = m_goal
          /\ m_solution' = <<SolutionActions(node), SolutionCells(node)>>
          /\ frontier' = RemoveAt(f, k)
    /\ s_pc' = "goal"
    /\ s_event' = "goal-reached"
    /\ s_result' = "solved"
    /\ UNCHANGED <<m_height, m_width, m_walls, m_start, m_goal, m_explored,
                   strategy>>
    /\ UNCHANGED <<genVars, uiVars, callVars>>

\* next(gen) with an empty frontier: NoSolution, the stream ends.
SearchFail ==
    /\ s_pc \in {"created", "exploring"}
    /\ FrontierAtLoopHead = <<>>
    /\ s_pc' = "ended"
    /\ s_result' = "NoSolution"
    /\ UNCHANGED <<m_height, m_width, m_walls, m_start, m_goal, m_explored,
                   m_solution, strategy, frontier, s_event>>
    /\ UNCHANGED <<genVars, uiVars, callVars>>

\* next(gen) after the goal-reached event: the stream ends (StopIteration).
SearchEnd ==
    /\ s_pc = "goal"
    /\ s_pc' = "ended"
    /\ UNCHANGED <<m_height, m_width, m_walls, m_start, m_goal, m_explored,
                   m_solution, strategy, frontier, s_event, s_result>>
    /\ UNCHANGED <<genVars, uiVars, callVars>>

NextSearch ==
    \/ SearchExplore
    \/ SearchGoal
    \/ SearchFail
    \/ SearchEnd

\* Visualizer.run calls next() on every search generator in every frame of
\* the solving state, so a search that can step does step.
SpecSearch == InitSearch /\ [][NextSearch]_vars /\ WF_vars(NextSearch)

SpecSearchWide == InitSearchWide /\ [][NextSearch]_vars /\ WF_vars(NextSearch)

SpecSearchUnique == InitSearchUnique /\ [][NextSearch]_vars /\ WF_vars(NextSearch)

-----------------------------------------------------------------------------
(* The Visualizer: the loop of run, the keys it handles, generate_maze and  *)
(* the frames of the solving state                                          *)

\* Visualizer.__init__ and the first lines of run: the menu is shown, no
\* maze, no MazeGenerator object.
InitUI ==
    /\ NoSearch
    /\ f_start = None
    /\ f_returned = None
    /\ ui_state = "menu"
    /\ running = TRUE
    /\ maze_data = None
    /\ v_multiple_solutions = FALSE
    /\ all_solved = FALSE
    /\ generators = None
    /\ run_pc = "events"
    /\ key = "none"
    /\ maze_mode = None
    /\ req_width = 0
    /\ req_height = 0
    /\ width = 0
    /\ height = 0
    /\ multiple_solutions = FALSE
    /\ maze = None
    /\ self_maze = None
    /\ in_maze = {}
    /\ remaining_cells = {}
    /\ current = None
    /\ path = <<>>
    /\ steps = 0
    /\ i = 0
    /\ pc = "idle"
    /\ event = "none"
    /\ walls_removed = {}

\* generate_maze has returned: its MazeGenerator and generator are dropped.
GeneratorDropped ==
    /\ req_width' = 0
    /\ req_height' = 0
    /\ width' = 0
    /\ height' = 0
    /\ multiple_solutions' = FALSE
    /\ maze' = None
    /\ self_maze' = None
    /\ in_maze' = {}
    /\ remaining_cells' = {}
    /\ current' = None
    /\ path' = <<>>
    /\ steps' = 0
    /\ i' = 0
    /\ pc' = "idle"
    /\ event' = "none"
    /\ walls_removed' = {}

\* The for loop of run is handling the events of this frame, and no
\* generate_maze call is in progress.
HandlingEvents == run_pc = "events" /\ ui_state # "generating"

\* Lines 262-266: a QUIT event or the Q key.
KeyQ ==
    /\ HandlingEvents
    /\ running' = FALSE
    /\ key' \in {"QUIT", "Q"}
    /\ UNCHANGED <<ui_state, maze_data, v_multiple_solutions, all_solved,
                   generators, run_pc>>
    /\ UNCHANGED <<genVars, searchVars, callVars>>
    /\ UNCHANGED maze_mode

\* A handler of the M key without the test of line 269.
KeyMAnywhere ==
    /\ HandlingEvents
    /\ key' = "M"
    /\ v_multiple_solutions' = ~v_multiple_solutions
    /\ UNCHANGED <<ui_state, running, maze_data, all_solved, generators, run_pc>>
    /\ UNCHANGED <<genVars, searchVars, callVars>>
    /\ UNCHANGED maze_mode

\* Lines 267-271: the M key toggles the setting in the menu only.
KeyM ==
    /\ HandlingEvents
    /\ key' = "M"
    /\ v_multiple_solutions' =
          IF ui_state = "menu" THEN ~v_multiple_solutions ELSE v_multiple_solutions
    /\ UNCHANGED <<ui_state, running, maze_data, all_solved, generators, run_pc>>
    /\ UNCHANGED <<genVars, searchVars, callVars>>
    /\ UNCHANGED maze_mode

\* A handler of the G key without the test of line 273.
KeyGAnywhere ==
    /\ HandlingEvents
    /\ key' = "G"
    /\ ui_state' = "generating"
    /\ req_width' = MAZE_WIDTH
    /\ req_height' = MAZE_HEIGHT
    /\ multiple_solutions' = v_multiple_solutions
    /\ pc' = "new"
    /\ UNCHANGED <<width, height, maze, self_maze, in_maze,
                   remaining_cells, current, path, steps, i, event,
                   walls_removed>>
    /\ UNCHANGED <<running, maze_data, v_multiple_solutions, all_solved,
                   generators, run_pc>>
    /\ UNCHANGED <<searchVars, callVars>>
    /\ UNCHANGED maze_mode

\* Lines 272-276 and 225-227: the G key in the menu or with a maze ready
\* starts generate_maze, which makes a MazeGenerator; elsewhere the key does
\* nothing.
KeyG ==
    /\ HandlingEvents
    /\ key' = "G"
    /\ IF ui_state \in {"menu", "ready_to_solve"}
       THEN /\ ui_state' = "generating"
            /\ req_width' = MAZE_WIDTH
            /\ req_height' = MAZE_HEIGHT
            /\ multiple_solutions' = v_multiple_solutions
            /\ pc' = "new"
            /\ UNCHANGED <<width, height, maze, self_maze, in_maze,
                           remaining_cells, current, path, steps, i, event,
                           walls_removed>>
       ELSE UNCHANGED <<ui_state, genVars>>
    /\ UNCHANGED <<running, maze_data, v_multiple_solutions, all_solved,
                   generators, run_pc>>
    /\ UNCHANGED <<searchVars, callVars>>
    /\ UNCHANGED maze_mode

\* Line 229: the for loop of generate_maze takes the generator's next step.
GenerateStep ==
    /\ ui_state = "generating"
    /\ Next

\* Lines 234-236: a QUIT event or the Q key polled after an event of the
\* generator was drawn: generate_maze returns None, and lines 276-281 go
\* back to the menu.
GenerateQuit ==
    /\ ui_state = "generating"
    /\ pc \in {"initial", "walk_start", "walking", "adding_path", "path_complete",
                "complete"}
    /\ key' \in {"QUIT", "Q"}
    /\ maze_data' = None
    /\ maze_mode' = None
    /\ ui_state' = "menu"
    /\ GeneratorDropped
    /\ UNCHANGED <<running, v_multiple_solutions, all_solved, generators, run_pc>>
    /\ UNCHANGED <<searchVars, callVars>>

\* Lines 240 and 276-281: the generator is exhausted, generate_maze returns
\* generator.maze.
GenerateReturn ==
    /\ ui_state = "generating"
    /\ pc = "done"
    /\ maze_data' = self_maze
    /\ maze_mode' = IF self_maze # None THEN multiple_solutions ELSE None
    /\ ui_state' = IF self_maze # None THEN "ready_to_solve" ELSE "menu"
    /\ GeneratorDropped
    /\ UNCHANGED <<running, v_multiple_solutions, all_solved, generators, run_pc,
                   key>>
    /\ UNCHANGED <<searchVars, callVars>>

\* The lengths the four search streams can have.
StreamLengths == [1 .. 4 -> 0 .. MaxEvents]

\* Lines 282-287: the S key with a maze ready starts the four searches.
KeyS ==
    /\ HandlingEvents
    /\ key' = "S"
    /\ IF ui_state = "ready_to_solve" /\ maze_data # None
       THEN /\ generators' \in StreamLengths
            /\ ui_state' = "solving"
            /\ all_solved' = FALSE
       ELSE UNCHANGED <<generators, ui_state, all_solved>>
    /\ UNCHANGED <<running, maze_data, v_multiple_solutions, run_pc>>
    /\ UNCHANGED <<genVars, searchVars, callVars>>
    /\ UNCHANGED maze_mode

\* Lines 288-294: the R key while solving or solved returns to the menu.
KeyR ==
    /\ HandlingEvents
    /\ key' = "R"
    /\ IF ui_state \in {"solving", "solved"}
       THEN /\ ui_state' = "menu"
            /\ maze_data' = None
            /\ maze_mode' = None
            /\ all_solved' = FALSE
       ELSE UNCHANGED <<ui_state, maze_data, maze_mode, all_solved>>
    /\ UNCHANGED <<running, v_multiple_solutions, generators, run_pc>>
    /\ UNCHANGED <<genVars, searchVars, callVars>>

\* Line 261: the events of this frame have all been handled.
EventsHandled ==
    /\ HandlingEvents
    /\ run_pc' = "draw"
    /\ UNCHANGED <<ui_state, running, maze_data, v_multiple_solutions,
                   all_solved, generators, key>>
    /\ UNCHANGED <<genVars, searchVars, callVars>>
    /\ UNCHANGED maze_mode

\* Lines 296-344 and 258: the frame is drawn; in the solving state every
\* search stream is advanced once, and when all four are exhausted the
\* state becomes solved; then the loop goes on or ends.
DrawFrame ==
    /\ run_pc = "draw"
    /\ IF ui_state = "solving"
       THEN /\ generators' = [k \in 1 .. 4 |->
                                 IF generators[k] > 0 THEN generators[k] - 1 ELSE 0]
            /\ IF (\A k \in 1 .. 4 : generators[k] = 0) /\ ~all_solved
               THEN all_solved' = TRUE /\ ui_state' = "solved"
               ELSE UNCHANGED <<all_solved, ui_state>>
       ELSE UNCHANGED <<generators, all_solved, ui_state>>
    /\ run_pc' = IF running THEN "events" ELSE "exited"
    /\ UNCHANGED <<running, maze_data, v_multiple_solutions, key>>
    /\ UNCHANGED <<genVars, searchVars, callVars>>
    /\ UNCHANGED maze_mode

NextUI ==
    \/ KeyQ
    \/ KeyM
    \/ KeyG
    \/ GenerateStep
    \/ GenerateQuit
    \/ GenerateReturn
    \/ KeyS
    \/ KeyR
    \/ EventsHandled
    \/ DrawFrame

SpecUI == InitUI /\ [][NextUI]_vars

-----------------------------------------------------------------------------
(* Properties of the generator *)

PassageCells == AllCells(height, width)

ReachableFromStart == get_reachable_positions(maze, <<1, 1>>, height, width)

\* Wall cells (cells that are not passage cells) that are no longer '#'.
ClearedWalls == {cell \in DOMAIN maze : cell \notin PassageCells /\ maze[cell] # "#"}

GoalCells == {cell \in DOMAIN maze : maze[cell] = "B"}

\* C1: in single-solution mode the grid at the complete event is a spanning
\* tree: exactly passage_cell_count - 1 wall cells are cleared and every
\* passage cell is reachable from (1,1).
C1_SpanningTree ==
    (pc = "complete" /\ ~multiple_solutions) =>
        /\ Cardinality(ClearedWalls) = Cardinality(PassageCells) - 1
        /\ PassageCells \subseteq ReachableFromStart

\* C2: a Goal cell present at the complete event differs from the start and
\* is reachable from (1,1) through non-wall cells, in both modes.
C2_GoalReachable ==
    pc = "complete" =>
        \A cell \in GoalCells : cell # <<1, 1>> /\ cell \in ReachableFromStart

\* A completed maze that has a goal although some passage cell is cut off.
C2_Witness ==
    /\ pc = "complete"
    /\ GoalCells # {}
    /\ ~(PassageCells \subseteq ReachableFromStart)

\* C3: a maze with more than one passage cell has a Goal at the complete event.
C3_GoalSet ==
    (pc = "complete" /\ Cardinality(PassageCells) > 1) => GoalCells # {}

\* C4: a walk that ends with its current cell outside the in-maze set is
\* abandoned: the step that follows clears no cell and adds nothing to the
\* in-maze set.
C4_AbandonedWalk ==
    [][(pc \in {"walk_start", "walking"} /\ ~WalkContinues /\ current \notin in_maze)
          => (maze' = maze /\ in_maze' = in_maze)]_vars

\* C7: the generator's width and height are odd, are the smallest odd
\* values >= the requested ones, and the allocated grid has those dimensions.
C7_OddDimensions ==
    pc # "new" =>
        /\ width % 2 = 1 /\ height % 2 = 1
        /\ width \in {req_width, req_width + 1}
        /\ height \in {req_height, req_height + 1}
        /\ maze # None => DOMAIN maze = (0 .. height - 1) \X (0 .. width - 1)

\* An even request whose grid has been allocated.
C7_Witness ==
    /\ pc = "initial"
    /\ req_width % 2 = 0
    /\ req_height % 2 = 0
    /\ width = req_width + 1

\* C8: a generator whose width or height is below 3 after odd-rounding is
\* rejected at construction: no generator object exists for it and no
\* generation event is emitted.
C8_InvalidDimensionsRejected ==
    (pc # "new" /\ (width < 3 \/ height < 3)) =>
        (pc \notin {"constructed", "raised"} /\ event = "none")

\* C9: the walk's path never repeats a cell, ends at the current cell and
\* moves 2 cells along one axis at a time; a step onto a cell that is in the
\* path at (1-based) position k leaves a path of length k ending there.
PathInvariant ==
    /\ \A j, k \in 1 .. Len(path) : path[j] = path[k] => j = k
    /\ path # <<>> => path[Len(path)] = current
    /\ \A k \in 1 .. Len(path) - 1 :
          \/ (path[k][1] = path[k + 1][1]
                /\ (path[k][2] - path[k + 1][2]) \in {2, -2})
          \/ (path[k][2] = path[k + 1][2]
                /\ (path[k][1] - path[k + 1][1]) \in {2, -2})

C9_LoopErasure ==
    /\ []PathInvariant
    /\ [][steps' = steps + 1 =>
            \A k \in 1 .. Len(path) :
                path[k] = current' => (Len(path') = k /\ path'[k] = current')]_vars

\* A walk that has just erased a loop of more than one cell.
C9_Witness ==
    /\ pc = "walking"
    /\ Len(path) = 1
    /\ steps = 4

\* C10: add_multiple_paths keeps every cell reachable from (1,1) reachable,
\* and the only cells it changes are Wall cells, which become Open.
C10_AugmenterMonotone ==
    [][(pc # "complete" /\ pc' = "complete") =>
          LET before == Placed
          IN /\ get_reachable_positions(before, <<1, 1>>, height, width)
                   \subseteq get_reachable_positions(maze', <<1, 1>>, height, width)
             /\ \A cell \in DOMAIN before :
                   maze'[cell] # before[cell] => (before[cell] = "#" /\ maze'[cell] = " ")]_vars

\* A completed maze in which add_multiple_paths has cleared a wall.
C10_Witness ==
    /\ pc = "complete"
    /\ multiple_solutions
    /\ walls_removed # {}
    /\ \A cell \in walls_removed : maze[cell] = " "

-----------------------------------------------------------------------------
(* Properties of the search engine *)

\* The cells next to a cell that are in the grid and not walls.
FreeAdjacent(cell) ==
    {nb \in {Move(cell, Actions[k]) : k \in 1 .. 4} : InGrid(nb) /\ nb \notin m_walls}

\* Reference breadth-first search: the cells at each distance from the start.
RECURSIVE Layers(_, _, _)
Layers(seen, layer, d) ==
    IF layer = {} THEN <<>>
    ELSE LET nxt == UNION {FreeAdjacent(cell) : cell \in layer} \ seen
         IN <<layer>> \o Layers(seen \cup nxt, nxt, d + 1)

ReferenceLayers == Layers({m_start}, {m_start}, 0)

GoalReachable == \E d \in 1 .. Len(ReferenceLayers) : m_goal \in ReferenceLayers[d]

\* The shortest-path distance from start to goal (the goal is reachable).
ShortestDistance == (CHOOSE d \in 1 .. Len(ReferenceLayers) : m_goal \in ReferenceLayers[d]) - 1

\* C5: the Queue and cost+heuristic solutions have the shortest-path length,
\* the Stack and Greedy solutions are at least that long.
C5_ShortestPaths ==
    s_result = "solved" =>
        /\ strategy \in {"queue", "astar"} => Len(m_solution[1]) = ShortestDistance
        /\ strategy \in {"stack", "greedy"} => Len(m_solution[1]) >= ShortestDistance

\* The solution is a walk from the start to the goal through free cells.
ValidSolution ==
    LET actions == m_solution[1]
        cells == m_solution[2]
        before(k) == IF k = 1 THEN m_start ELSE cells[k - 1]
    IN /\ Len(actions) = Len(cells)
       /\ Len(cells) > 0
       /\ cells[Len(cells)] = m_goal
       /\ \A k \in 1 .. Len(cells) :
             /\ cells[k] = Move(before(k), actions[k])
             /\ InGrid(cells[k])
             /\ cells[k] \notin m_walls

\* How a search stands once its stream has ended.
SearchOutcome ==
    /\ s_result = "solved" => (GoalReachable /\ s_event = "goal-reached" /\ ValidSolution)
    /\ s_result = "NoSolution" => (~GoalReachable /\ frontier = <<>> /\ m_solution = None)
    /\ s_pc = "ended" => s_result \in {"solved", "NoSolution"}

\* C6: with each of the four frontiers a search run terminates; it ends with
\* a goal-reached event carrying a start-to-goal path exactly when the goal
\* is reachable, and with NoSolution on an empty frontier otherwise; after
\* the terminal event nothing more is explored.
C6_SearchTerminates ==
    /\ <>(s_pc = "ended")
    /\ []SearchOutcome
    /\ [][(s_pc \in {"goal", "ended"}) =>
            (s_event' = s_event /\ m_explored' = m_explored /\ s_result' = s_result)]_vars

\* A search that explored more than its start and ended without a solution.
C6_Witness ==
    /\ s_pc = "ended"
    /\ s_result = "NoSolution"
    /\ Cardinality(m_explored) > 1

-----------------------------------------------------------------------------
(* Further properties of the generator *)

\* The wall cells that lie directly between two Open passage cells, next to
\* each other in a row or in a column of passage cells.
BetweenOpenPassages(m, h, w) ==
    {cell \in UNION {{WallBetween(a, b) : b \in {nb \in Neighbors(a, h, w) : m[nb] = " "}} :
                        a \in {p \in AllCells(h, w) : m[p] = " "}} :
        m[cell] = "#"}

\* C11: add_multiple_paths clears exactly floor(C / 8) distinct wall cells,
\* C being the number of wall cells directly between two Open passage cells,
\* and every cleared cell is one of those C; nothing else changes.
C11_AugmenterCount ==
    [][(pc # "complete" /\ pc' = "complete" /\ multiple_solutions) =>
          LET before == Placed
              between == BetweenOpenPassages(before, height, width)
              cleared == {cell \in DOMAIN before : maze'[cell] # before[cell]}
          IN /\ Cardinality(cleared) = Cardinality(between) \div 8
             /\ cleared \subseteq between
             /\ \A cell \in cleared : before[cell] = "#" /\ maze'[cell] = " "]_vars

\* A completed maze in which add_multiple_paths found at least eight
\* candidates and cleared a wall between two Open passage cells.
C11_Witness ==
    /\ pc = "complete"
    /\ multiple_solutions
    /\ Cardinality(walls_removed) = 1
    /\ \A cell \in walls_removed :
          /\ maze[cell] = " "
          /\ cell \notin PassageCells
          /\ Cardinality({nb \in OpenAdjacent(maze, cell, height, width) : maze[nb] = " "}) = 2

-----------------------------------------------------------------------------
(* Further properties of the search engine *)

\* Reference enumeration: every simple path from a cell to the goal through
\* free cells, as the sequence of cells after that cell.
RECURSIVE SimplePathsFrom(_, _)
SimplePathsFrom(cell, visited) ==
    IF cell = m_goal THEN {<<>>}
    ELSE UNION {{<<nb>> \o p : p \in SimplePathsFrom(nb, visited \cup {nb})} :
                    nb \in FreeAdjacent(cell) \ visited}

SimplePaths == SimplePathsFrom(m_start, {m_start})

\* C13: on a grid with exactly one simple path between start and goal, the
\* solution of each of the four searches is that path (so all four agree),
\* with the actions that walk it.
C13_UniquePathAgreement ==
    s_result = "solved" =>
        LET paths == SimplePaths
            actions == m_solution[1]
            cells == m_solution[2]
        IN Cardinality(paths) = 1 =>
              /\ cells \in paths
              /\ Len(actions) = Len(cells)
              /\ \A k \in 1 .. Len(cells) :
                    cells[k] = Move(IF k = 1 THEN m_start ELSE cells[k - 1], actions[k])

\* A depth-first search of a single-solution maze that went into a dead end
\* and still returned the only path.
C13_Witness ==
    /\ s_result = "solved"
    /\ strategy = "stack"
    /\ m_height > 1
    /\ Cardinality(SimplePaths) = 1
    /\ \E cell \in m_explored :
          cell # m_start /\ \A k \in 1 .. Len(m_solution[2]) : m_solution[2][k] # cell

StartCells == {cell \in DOMAIN maze : maze[cell] = "A"}

\* C14: the grid at the complete event has exactly one Start cell, at (1,1),
\* and at most one Goal cell; every other cell is Wall or Open; in both modes.
C14_OneStartOneGoal ==
    pc = "complete" =>
        /\ StartCells = {<<1, 1>>}
        /\ Cardinality(GoalCells) <= 1
        /\ \A cell \in DOMAIN maze : maze[cell] \in {"#", " ", "A", "B"}
        /\ self_maze = maze

\* A completed grid with its Start and a Goal that is not the cell furthest
\* from the start.
C14_Witness ==
    /\ pc = "complete"
    /\ StartCells = {<<1, 1>>}
    /\ Cardinality(GoalCells) = 1
    /\ find_furthest_cell(maze, <<1, 1>>, height, width) \notin GoalCells

\* The positions at which the generator is suspended at a yield.
YieldPositions ==
    {"initial", "walk_start", "walking", "adding_path", "path_complete", "complete"}

\* The phase tags that may follow a phase tag in the event stream.
FollowingTags(tag) ==
    CASE tag = "none"          -> {"initial"}
      [] tag = "initial"       -> {"walk_start", "complete"}
      [] tag = "walk_start"    -> {"walking", "adding_path"}
      [] tag = "walking"       -> {"walking", "adding_path"}
      [] tag = "adding_path"   -> {"adding_path", "path_complete"}
      [] tag = "path_complete" -> {"walk_start", "complete"}
      [] tag = "complete"      -> {}

\* A measure of the work a generation has left: the cells still outside the
\* maze at the loop head, each worth one walk of at most max_steps steps and
\* one path of at most all the passage cells, then the position in the walk.
WalkBudget == max_steps + Cardinality(AllCells(OddRound(req_height), OddRound(req_width))) + 5

Rank ==
    CASE pc = "new"           -> (Cardinality(AllCells(OddRound(req_height), OddRound(req_width))) + 1)
                                    * WalkBudget + 2
      [] pc = "constructed"   -> (Cardinality(AllCells(height, width)) + 1) * WalkBudget + 1
      [] pc \in {"initial", "path_complete"} ->
                                 (Cardinality(RemainingAtLoopHead) + 1) * WalkBudget
      [] pc \in {"walk_start", "walking"} ->
                                 (Cardinality(remaining_cells) + 1) * WalkBudget - 1 - steps
      [] pc = "adding_path"   -> (Cardinality(remaining_cells) + 1) * WalkBudget
                                    - 2 - max_steps - i
      [] pc = "complete"      -> 1
      [] OTHER                -> 0

\* Every step of the generator uses up some of the measure.
RankDecreases == [][Rank' < Rank]_vars

\* A generator suspended at a yield other than the last can be resumed.
CanResume ==
    \/ pc \in {"initial", "path_complete"}
    \/ pc \in {"walk_start", "walking"} /\ path # <<>>
          /\ (WalkContinues \/ path[1] \in DOMAIN maze)
    \/ pc = "adding_path" /\ (i + 1 >= Len(path) \/ path[i + 2] \in DOMAIN maze)

\* C16: the event stream is finite and ordered: the first event is initial,
\* every walk is walk_start, walking*, adding_path+, path_complete, walks do
\* not interleave, complete follows initial or a path_complete, nothing
\* follows complete, and the stream does not end before complete.
C16_EventOrder ==
    /\ [][(pc' \in YieldPositions) => (event' \in FollowingTags(event) /\ event' = pc')]_vars
    /\ [][(pc' \notin YieldPositions) => event' = event]_vars
    /\ [][(pc \in YieldPositions) =>
            IF pc = "complete" THEN pc' = "done" ELSE pc' \in YieldPositions]_vars
    /\ []((pc \in YieldPositions \ {"complete"}) => CanResume)
    /\ [](Rank >= 0)
    /\ RankDecreases

\* The stream has ended after a last walk of several steps and a path of
\* several cells.
C16_Witness ==
    /\ pc = "done"
    /\ event = "complete"
    /\ steps > 2
    /\ Len(path) > 2

\* C18: generation terminates: every step uses up some of a bounded
\* measure; a walk takes at most max_steps steps; the cell a walk starts
\* from is outside the maze when chosen and has left the remaining set at
\* path_complete, so the remaining set, passage_cell_count - 1 cells at the
\* start, shrinks with every walk and no cell starts a walk twice.
C18_GenerationTerminates ==
    /\ RankDecreases
    /\ [](steps <= max_steps)
    /\ [](pc = "initial" =>
            Cardinality(RemainingAtLoopHead) = Cardinality(PassageCells) - 1)
    /\ [][(pc' = "walk_start") =>
            (current' \in RemainingAtLoopHead /\ current' \notin in_maze
                /\ path' = <<current'>>)]_vars
    /\ [][(pc' = "path_complete") =>
            /\ path[1] \in remaining_cells
            /\ path[1] \notin remaining_cells'
            /\ remaining_cells' \subseteq remaining_cells
            /\ remaining_cells' = PassageCells \ in_maze]_vars
    /\ [][in_maze \subseteq in_maze']_vars
    /\ [][(pc \in {"initial", "path_complete"} /\ RemainingAtLoopHead = {}) =>
            pc' = "complete"]_vars

\* A walk stopped by the step bound has ended, its starting cell has left
\* the remaining set and other cells remain.
C18_Witness ==
    /\ pc = "path_complete"
    /\ steps = max_steps
    /\ path[1] \notin remaining_cells
    /\ remaining_cells # {}

\* Reference enumeration: the simple paths through cleared cells from a
\* cell to a target, as the sequence of cells after the first.
RECURSIVE ClearedPaths(_, _, _)
ClearedPaths(cell, target, visited) ==
    IF cell = target THEN {<<>>}
    ELSE UNION {{<<nb>> \o p : p \in ClearedPaths(nb, target, visited \cup {nb})} :
                    nb \in OpenAdjacent(maze, cell, height, width) \ visited}

\* Reference enumeration: every simple path through cleared cells that
\* starts at a cell, as the sequence of cells after it.
RECURSIVE ClearedPathsFrom(_, _)
ClearedPathsFrom(cell, visited) ==
    {<<>>} \cup
    UNION {{<<nb>> \o p : p \in ClearedPathsFrom(nb, visited \cup {nb})} :
              nb \in OpenAdjacent(maze, cell, height, width) \ visited}

\* Between any two cleared passage cells there is at most one simple path
\* through cleared cells: no two simple paths from a passage cell end on
\* the same cell.
PathsUnique ==
    \A a \in {cell \in PassageCells : maze[cell] # "#"} :
        LET paths == ClearedPathsFrom(a, {a})
            End(p) == IF p = <<>> THEN a ELSE p[Len(p)]
        IN Cardinality({End(p) : p \in paths}) = Cardinality(paths)

\* The positions the generator reaches by a step that writes to the grid.
GridWritten == {"initial", "adding_path", "complete"}

C20_GoalPlacement ==
    [][(pc # "complete" /\ pc' = "complete") =>
          LET before == [maze EXCEPT ![<<1, 1>>] = "A"]
              reachable == get_reachable_positions(before, <<1, 1>>, height, width)
              passages == (PassageCells \cap reachable) \ {<<1, 1>>}
              goals == {cell \in DOMAIN maze : maze'[cell] = "B"}
          IN /\ goals \subseteq passages
             /\ passages # {} => Cardinality(goals) = 1
             /\ \A goal \in goals : \A other \in passages :
                   \/ other[1] < goal[1]
                   \/ (other[1] = goal[1] /\ other[2] <= goal[2])
             /\ (reachable \ {<<1, 1>>} # {}) => passages # {}
             /\ (PassageCells \subseteq reachable /\ Cardinality(PassageCells) > 1)
                   => goals = {<<height - 2, width - 2>>}]_vars

\* A completed maze whose bottom-right passage cell is cut off from the
\* start: the Goal is on the first reachable passage cell of the scan.
C20_Witness ==
    /\ pc = "complete"
    /\ height = 5
    /\ width = 5
    /\ maze[<<3, 1>>] = "B"
    /\ maze[<<1, 3>>] = " "
    /\ <<1, 3>> \in ReachableFromStart
    /\ <<3, 3>> \notin ReachableFromStart

-----------------------------------------------------------------------------
(* Properties of find_furthest_cell *)

\* Reference distances: the cells at each distance from the start of the call.
RECURSIVE DistanceLayers(_, _)
DistanceLayers(seen, layer) ==
    IF layer = {} THEN <<>>
    ELSE LET nxt == UNION {OpenAdjacent(maze, cell, height, width) : cell \in layer} \ seen
         IN <<layer>> \o DistanceLayers(seen \cup nxt, nxt)

\* The cells at the largest distance from the start.
FurthestLayer ==
    LET layers == DistanceLayers({f_start}, {f_start})
    IN layers[Len(layers)]

\* The order in which a breadth-first traversal discovers the cells: a cell
\* is discovered when it is put in the queue.
RECURSIVE DiscoveryOrder(_, _)
DiscoveryOrder(queue, order) ==
    IF queue = <<>> THEN order
    ELSE LET cell == Head(queue)
             seen == {order[k] : k \in 1 .. Len(order)}
             cand == [k \in 1 .. 4 |->
                         <<cell[1] + Directions[k][1], cell[2] + Directions[k][2]>>]
             ok(nb) == /\ nb \in DOMAIN maze
                       /\ nb \notin seen
                       /\ maze[nb] # "#"
             fresh == SelectSeq(cand, ok)
         IN DiscoveryOrder(Tail(queue) \o fresh, order \o fresh)

Discovered == DiscoveryOrder(<<f_start>>, <<f_start>>)

\* The cells of the furthest layer in the order of their discovery.
FurthestInOrder ==
    LET layer == FurthestLayer
        InLayer(cell) == cell \in layer
    IN SelectSeq(Discovered, InLayer)

\* C17 (as stated): find_furthest_cell returns a cell at the largest
\* shortest-path distance from the start, and among the cells at that
\* distance the one the breadth-first traversal discovered last.
C17_FurthestLastDiscovered ==
    f_returned # None =>
        LET ties == FurthestInOrder
        IN f_returned = ties[Len(ties)]

\* C17 (amended): find_furthest_cell returns a cell at the largest
\* shortest-path distance from the start, and among the cells at that
\* distance the one the breadth-first traversal discovered first.
C17_FurthestFirstDiscovered ==
    f_returned # None =>
        LET ties == FurthestInOrder
        IN f_returned = ties[1]

\* A call that returned one of several cells at the largest distance, two
\* or more steps from the start.
C17_Witness ==
    /\ f_returned # None
    /\ Cardinality(FurthestLayer) > 1
    /\ f_returned \in FurthestLayer
    /\ f_start \notin OpenAdjacent(maze, f_returned, height, width)

-----------------------------------------------------------------------------
(* Properties of the Visualizer *)

\* C15: a Q key press while the maze is being generated
\* quits the program: the main loop stops running and the menu, generation
\* or solving states are not entered again.
C15_QuitDuringGeneration ==
    [][(ui_state = "generating" /\ running /\ key' = "Q") =>
          (running' = FALSE
             /\ ui_state' \notin {"menu", "ready_to_solve", "solving", "solved"})]_vars


\* What a key that is not accepted leaves as it is: everything run and
\* generate_maze hold, except the position in the loop and the key itself.
KeyIgnored ==
    UNCHANGED <<ui_state, running, maze_data, v_multiple_solutions, all_solved,
                generators, genVars>>

\* The loop of run is handling a key (no generate_maze call in progress).
RunHandlesKey == run_pc = "events" /\ ui_state # "generating"

\* C21: the solving state is entered only by the S key in the
\* ready_to_solve state with a maze present; the solved state is entered
\* only from the solving state, in a frame in which all four search streams
\* are exhausted; generation starts only by the G key in the menu and
\* ready_to_solve states and G changes nothing elsewhere; solving and solved
\* are left for the menu only by the R key and R changes nothing elsewhere.
C21_StateTransitions ==
    /\ [][(ui_state' = "solving" /\ ui_state # "solving") =>
             (key' = "S" /\ run_pc = "events" /\ ui_state = "ready_to_solve"
                /\ maze_data # None /\ maze_data' = maze_data)]_vars
    /\ [][(ui_state' = "solved" /\ ui_state # "solved") =>
             (ui_state = "solving" /\ run_pc = "draw"
                /\ \A k \in 1 .. 4 : generators[k] = 0)]_vars
    /\ [][(ui_state' = "generating" /\ ui_state # "generating") =>
             (key' = "G" /\ run_pc = "events"
                /\ ui_state \in {"menu", "ready_to_solve"})]_vars
    /\ [][(RunHandlesKey /\ key' = "G"
             /\ ui_state \notin {"menu", "ready_to_solve"}) => KeyIgnored]_vars
    /\ [][(ui_state \in {"solving", "solved"} /\ ui_state' = "menu") =>
             (key' = "R" /\ run_pc = "events")]_vars
    /\ [][(RunHandlesKey /\ key' = "R"
             /\ ui_state \notin {"solving", "solved"}) => KeyIgnored]_vars

\* The four searches of a generated maze have all ended, the solved screen
\* is shown, and a G key pressed there was not accepted.
C21_Witness ==
    /\ ui_state = "solved"
    /\ all_solved
    /\ maze_data # None
    /\ key = "G"
    /\ pc = "idle"


\* C22: the multiple-solutions setting changes only by the M key in the
\* menu state, and whenever a maze is ready, being solved or solved, the
\* setting shown (visualizer lines 331-334) is the one its MazeGenerator was
\* made with.
C22_ModeMatchesMaze ==
    /\ [][(v_multiple_solutions' # v_multiple_solutions) =>
             (ui_state = "menu" /\ ui_state' = "menu" /\ key' = "M")]_vars
    /\ [](ui_state \in {"ready_to_solve", "solving", "solved"} =>
             (maze_data # None /\ maze_mode = v_multiple_solutions))

\* A maze generated with multiple solutions switched on has been solved,
\* and an M key pressed on the solved screen has left the setting on.
C22_Witness ==
    /\ ui_state = "solved"
    /\ maze_data # None
    /\ maze_mode = TRUE
    /\ v_multiple_solutions
    /\ key = "M"

=============================================================================
